---- MODULE Spec2Model ----
(***************************************************************************)
(* A model of azure/http/httpclient.py: the class _HTTPClient, which sends *)
(* one request over a platform connection object and returns the response *)
(* or raises HTTPError.                                                    *)
(*                                                                         *)
(* Conventions.  Python's None is the string None in text-typed fields and *)
(* NoneInt in integer-typed fields.  A byte string or a body is a record   *)
(* [type, data]; a header line "name: value" is a record [name, value].    *)
(* Text that the code builds or converts character by character (response  *)
(* header names, the proxy credentials) is a sequence of one-character     *)
(* strings.                                                                *)
(***************************************************************************)
EXTENDS Integers, Sequences, FiniteSets, TLC

\* ------------------------------------------------------------------ bounds
MaxHeaders == 2
MaxBuffered == 2
MaxRespHeaders == 2
MaxBody == 2

\* --------------------------------------------------------------- constants
None == "None"
NoneInt == -1
HTTP_PORT == 80
HTTPS_PORT == 443
MAXBINSIZE == 57
_USER_AGENT_STRING == "pyazure"

Truthy(v) == v # None /\ v # ""

NoneBody == [type |-> "NoneType", data |-> <<>>]
TruthyBody(b) == b.type # "NoneType" /\ b.data # <<>>

\* ----------------------------------------------------------- text helpers
UpperChars == <<"A","B","C","D","E","F","G","H","I","J","K","L","M",
                "N","O","P","Q","R","S","T","U","V","W","X","Y","Z">>
LowerChars == <<"a","b","c","d","e","f","g","h","i","j","k","l","m",
                "n","o","p","q","r","s","t","u","v","w","x","y","z">>
Digits == <<"0","1","2","3","4","5","6","7","8","9">>

IndexIn(seq, c) == CHOOSE i \in 1..Len(seq) : seq[i] = c
Occurs(seq, c) == \E i \in 1..Len(seq) : seq[i] = c

\* str.lower() on one character, then on a string
LowerCharMutant(c) == c
LowerChar(c) == IF Occurs(UpperChars, c) THEN LowerChars[IndexIn(UpperChars, c)] ELSE c
lower(s) == [i \in 1..Len(s) |-> LowerChar(s[i])]

\* ord() of the characters the model uses
Ord(c) ==
    IF Occurs(UpperChars, c) THEN 64 + IndexIn(UpperChars, c)
    ELSE IF Occurs(LowerChars, c) THEN 96 + IndexIn(LowerChars, c)
    ELSE IF Occurs(Digits, c) THEN 47 + IndexIn(Digits, c)
    ELSE IF c = ":" THEN 58 ELSE 63

\* the characters of the proxy credentials the model uses
Chars(s) ==
    CASE s = "ab" -> <<"a","b">>
      [] s = "c"  -> <<"c">>
      [] OTHER    -> <<>>

\* "{0}:{1}".format(a, b) as characters
FormatPair(a, b) == Chars(a) \o <<":">> \o Chars(b)

\* "{0}:{1}".format(host, port) as the text of a header value
FormatHostPort(host, port) ==
    CASE host = "target" /\ port = 80   -> "target:80"
      [] host = "target" /\ port = 443  -> "target:443"
      [] host = "proxy"  /\ port = 8080 -> "proxy:8080"
      [] OTHER -> "?"

\* ----------------------------------------------------------------- base64
B64Alphabet == UpperChars \o LowerChars \o Digits \o <<"+","/">>
B64(n) == B64Alphabet[n + 1]

Take(s, n) == SubSeq(s, 1, IF n < Len(s) THEN n ELSE Len(s))
Drop(s, n) == SubSeq(s, n + 1, Len(s))

RECURSIVE b64encode(_)
b64encode(bytes) ==
    IF Len(bytes) = 0 THEN <<>>
    ELSE IF Len(bytes) = 1 THEN
        <<B64(bytes[1] \div 4), B64((bytes[1] % 4) * 16), "=", "=">>
    ELSE IF Len(bytes) = 2 THEN
        LET n == bytes[1] * 256 + bytes[2]
        IN  <<B64(n \div 1024), B64((n \div 16) % 64), B64((n % 16) * 4), "=">>
    ELSE
        LET n == bytes[1] * 65536 + bytes[2] * 256 + bytes[3]
        IN  <<B64(n \div 262144), B64((n \div 4096) % 64),
              B64((n \div 64) % 64), B64(n % 64)>> \o b64encode(Drop(bytes, 3))

\* base64.encodestring: each chunk of MAXBINSIZE bytes, encoded, ends in a newline
RECURSIVE encodestring(_)
encodestring(chars) ==
    IF Len(chars) = 0 THEN <<>>
    ELSE b64encode([i \in 1..Len(Take(chars, MAXBINSIZE)) |-> Ord(chars[i])])
         \o <<"\n">> \o encodestring(Drop(chars, MAXBINSIZE))

\* ------------------------------------------------------------------ state
VARIABLES
    self,        \* the _HTTPClient instance's fields
    pc,          \* per thread: the statement of perform_request it is at
    request,     \* per thread: the request passed to perform_request
    connection,  \* per thread: the connection object of the call
    calls,       \* per thread: the operations invoked on the connection and response
    resp,        \* per thread: the response object getresponse returned
    headers,     \* per thread: the list object resp.getheaders() returned
    index,       \* per thread: the loop variable i of the lowercasing loop
    respbody,    \* per thread: the local respbody
    response,    \* per thread: the local response
    outcome,     \* per thread: how the call left perform_request
    overlapped   \* per thread (history): another call was in progress during this call

vars == <<self, pc, request, connection, calls, resp, headers, index,
          respbody, response, outcome, overlapped>>

Threads == {1, 2}
Other(t) == 3 - t

NoConnection ==
    [type |-> "NoneType", host |-> None, port |-> NoneInt, cert_file |-> None,
     protocol |-> None, _tunnel_host |-> None, _tunnel_port |-> NoneInt,
     _tunnel_headers |-> <<>>, _buffer |-> <<>>, sent |-> <<>>, body |-> <<>>,
     closed |-> 0]

NoRequest ==
    [method |-> None, path |-> None, host |-> None, protocol_override |-> None,
     headers |-> <<>>, body |-> NoneBody]

NoResponse ==
    [status |-> NoneInt, reason |-> None, headers |-> <<>>, length |-> NoneInt,
     data |-> <<>>, reads |-> <<>>]

NoResult ==
    [kind |-> "none", status |-> NoneInt, reason |-> None, headers |-> <<>>,
     body |-> NoneBody]

Call(op) == [op |-> op, name |-> None, value |-> None]
PutHeader(name, value) == [op |-> "putheader", name |-> name, value |-> value]

InProgress(t) == pc[t] \notin {"idle", "done"}

\* ------------------------------------------------------------ __init__
\* lines 40-58: the fields after construction; use_httplib is the platform's
NewClient(protocol, use_httplib) ==
    [status |-> NoneInt, respheader |-> 0, message |-> None,
     cert_file |-> "cert.pem", protocol |-> protocol,
     proxy_host |-> None, proxy_port |-> NoneInt,
     proxy_user |-> None, proxy_password |-> None,
     use_httplib |-> use_httplib]

InitWith(clients) ==
    /\ self \in clients
    /\ pc = [t \in Threads |-> "idle"]
    /\ request = [t \in Threads |-> NoRequest]
    /\ connection = [t \in Threads |-> NoConnection]
    /\ calls = [t \in Threads |-> <<>>]
    /\ resp = [t \in Threads |-> NoResponse]
    /\ headers = [t \in Threads |-> <<>>]
    /\ index = [t \in Threads |-> 0]
    /\ respbody = [t \in Threads |-> NoneBody]
    /\ response = [t \in Threads |-> NoResult]
    /\ outcome = [t \in Threads |-> NoResult]
    /\ overlapped = [t \in Threads |-> FALSE]

\* ------------------------------------------------------------ set_proxy
\* lines 69-72; the settings are read-only while a request is dispatched
set_proxy(host, port, user, password) ==
    /\ \A t \in Threads : pc[t] = "idle"
    /\ self' = [self EXCEPT !.proxy_host = host, !.proxy_port = port,
                            !.proxy_user = user, !.proxy_password = password]
    /\ UNCHANGED <<pc, request, connection, calls, resp, headers, index,
                   respbody, response, outcome, overlapped>>

SetProxy(proxies) ==
    \E p \in proxies : set_proxy(p.host, p.port, p.user, p.password)

\* ------------------------------------------------------- get_connection
\* line 76
EffectiveProtocolMutant(client, req) == client.protocol
EffectiveProtocol(client, req) ==
    IF Truthy(req.protocol_override) THEN req.protocol_override ELSE client.protocol

\* line 78
TargetPort(protocol) == IF protocol = "http" THEN HTTP_PORT ELSE HTTPS_PORT

\* lines 101-104: the headers argument of set_tunnel
TunnelHeaders(client) ==
    IF Truthy(client.proxy_user) /\ Truthy(client.proxy_password)
    THEN << <<"Proxy-Authorization",
              <<"B","a","s","i","c"," ">>
              \o encodestring(FormatPair(client.proxy_user, client.proxy_password))>> >>
    ELSE <<>>

\* lines 80-98: the connection the constructor returns
NewConnection(client, req) ==
    LET protocol == EffectiveProtocol(client, req)
        target_host == req.host
        target_port == TargetPort(protocol)
    IN  IF ~client.use_httplib
        THEN [NoConnection EXCEPT !.type = "_HTTPConnection", !.host = target_host,
                                  !.cert_file = client.cert_file,
                                  !.protocol = protocol]
        ELSE LET host == IF Truthy(client.proxy_host) THEN client.proxy_host
                         ELSE target_host
                 port == IF Truthy(client.proxy_host) THEN client.proxy_port
                         ELSE target_port
             IN  IF protocol = "http"
                 THEN [NoConnection EXCEPT !.type = "HTTPConnection",
                                           !.host = host, !.port = port]
                 ELSE [NoConnection EXCEPT !.type = "HTTPSConnection",
                                           !.host = host, !.port = port,
                                           !.cert_file = client.cert_file]

\* lines 83-88, 100-105: connection.set_tunnel(proxy_host, int(proxy_port), headers)
SetTunnel(client, req, conn) ==
    LET target_port == TargetPort(EffectiveProtocol(client, req))
        proxy_host == IF ~client.use_httplib THEN client.proxy_host ELSE req.host
        proxy_port == IF ~client.use_httplib THEN client.proxy_port ELSE target_port
    IN  IF Truthy(client.proxy_host)
        THEN [conn EXCEPT !._tunnel_host = proxy_host, !._tunnel_port = proxy_port,
                          !._tunnel_headers = TunnelHeaders(client)]
        ELSE conn

\* lines 74-107
get_connection(client, req) == SetTunnel(client, req, NewConnection(client, req))

\* the operations get_connection invokes on the connection, in order
GetConnectionCalls(client) ==
    <<Call("__init__")>>
    \o (IF Truthy(client.proxy_host) THEN <<Call("set_tunnel")>> ELSE <<>>)

\* ------------------------------------------------- the connection object
\* httplib keeps the header lines in _buffer until endheaders sends them; the
\* alternate connection has no _buffer
IsHttplib(conn) == conn.type \in {"HTTPConnection", "HTTPSConnection"}

Apply(conn, call) ==
    IF ~IsHttplib(conn) THEN conn
    ELSE IF call.op = "putheader"
    THEN [conn EXCEPT !._buffer = Append(@, [name |-> call.name, value |-> call.value])]
    ELSE IF call.op = "endheaders"
    THEN [conn EXCEPT !.sent = conn._buffer, !._buffer = <<>>]
    ELSE conn

RECURSIVE ApplyAll(_, _)
ApplyAll(conn, cs) ==
    IF cs = <<>> THEN conn ELSE ApplyAll(Apply(conn, Head(cs)), Tail(cs))

\* --------------------------------------------------- send_request_headers
\* line 113: i.startswith("Host: ")
StartsWithHost(line) == line.name = "Host" /\ line.value # None

\* list.remove(x): removes the first element equal to x
RECURSIVE Remove(_, _)
Remove(list, x) ==
    IF list = <<>> THEN <<>>
    ELSE IF Head(list) = x THEN Tail(list)
    ELSE <<Head(list)>> \o Remove(Tail(list), x)

\* lines 112-114: the for loop walks the list by position while remove shortens it
RECURSIVE RemoveHostLines(_, _)
RemoveHostLines(buffer, i) ==
    IF i > Len(buffer) THEN buffer
    ELSE IF StartsWithHost(buffer[i])
    THEN RemoveHostLines(Remove(buffer, buffer[i]), i + 1)
    ELSE RemoveHostLines(buffer, i + 1)

\* lines 110-114: the connection when the loop is over
HostLinesRemoved(client, conn) ==
    IF client.use_httplib /\ Truthy(client.proxy_host)
    THEN [conn EXCEPT !._buffer = RemoveHostLines(conn._buffer, 1)]
    ELSE conn

\* line 115
HostHeaderCalls(client, conn) ==
    IF client.use_httplib /\ Truthy(client.proxy_host)
    THEN <<PutHeader("Host", FormatHostPort(conn._tunnel_host, conn._tunnel_port))>>
    ELSE <<>>

\* lines 117-119
RequestHeaderCallsMutant(request_headers) ==
    [i \in 1..Len(request_headers) |->
        PutHeader(request_headers[i][1], request_headers[i][2])]
RECURSIVE RequestHeaderCalls(_)
RequestHeaderCalls(request_headers) ==
    IF request_headers = <<>> THEN <<>>
    ELSE (IF Truthy(Head(request_headers)[2])
          THEN <<PutHeader(Head(request_headers)[1], Head(request_headers)[2])>>
          ELSE <<>>)
         \o RequestHeaderCalls(Tail(request_headers))

\* lines 115-122: the operations send_request_headers invokes, in order
SendRequestHeadersCallsMutant(client, conn, request_headers) ==
    HostHeaderCalls(client, conn)
    \o <<PutHeader("User-Agent", _USER_AGENT_STRING), Call("endheaders")>>
    \o RequestHeaderCalls(request_headers)
SendRequestHeadersCalls(client, conn, request_headers) ==
    HostHeaderCalls(client, conn)
    \o RequestHeaderCalls(request_headers)
    \o <<PutHeader("User-Agent", _USER_AGENT_STRING), Call("endheaders")>>

\* ------------------------------------------------------ send_request_body
\* lines 125-130: the argument of the one send, or no send
SendRequestBodySendsMutant(conn, request_body) ==
    IF TruthyBody(request_body) THEN <<request_body>> ELSE <<NoneBody>>
SendRequestBodySends(conn, request_body) ==
    IF TruthyBody(request_body) THEN <<request_body>>
    ELSE IF ~IsHttplib(conn) THEN <<NoneBody>>
    ELSE <<>>

\* -------------------------------------------------------- perform_request
\* an exception leaves the try block: the finally clause runs next
RaiseMutant(t, what) ==
    /\ outcome' = [outcome EXCEPT ![t] = [NoResult EXCEPT !.kind = "exception",
                                                          !.reason = what]]
    /\ pc' = [pc EXCEPT ![t] = "done"]
Raise(t, what) ==
    /\ outcome' = [outcome EXCEPT ![t] = [NoResult EXCEPT !.kind = "exception",
                                                          !.reason = what]]
    /\ pc' = [pc EXCEPT ![t] = "finally"]

\* the call of perform_request(request)
PerformRequest(t, requests) ==
    /\ pc[t] = "idle"
    /\ \E r \in requests : request' = [request EXCEPT ![t] = r]
    /\ pc' = [pc EXCEPT ![t] = "get_connection"]
    /\ outcome' = [outcome EXCEPT ![t] = NoResult]
    /\ overlapped' = [u \in Threads |->
                        IF u = t THEN InProgress(Other(t))
                        ELSE overlapped[u] \/ InProgress(u)]
    /\ UNCHANGED <<self, connection, calls, resp, headers, index, respbody, response>>

\* line 134
GetConnection(t) ==
    /\ pc[t] = "get_connection"
    /\ connection' = [connection EXCEPT ![t] = get_connection(self, request[t])]
    /\ calls' = [calls EXCEPT ![t] = GetConnectionCalls(self)]
    /\ pc' = [pc EXCEPT ![t] = "putrequest"]
    /\ UNCHANGED <<self, request, resp, headers, index, respbody, response,
                   outcome, overlapped>>

\* line 134: the constructor or set_tunnel raises; the call is outside the try
\* block, so the exception leaves perform_request at once
GetConnectionRaises(t) ==
    /\ pc[t] = "get_connection"
    /\ \E k \in 1..Len(GetConnectionCalls(self)) :
         /\ calls' = [calls EXCEPT ![t] = SubSeq(GetConnectionCalls(self), 1, k)]
         /\ connection' = [connection EXCEPT ![t] =
                             IF k = 1 THEN NoConnection
                             ELSE NewConnection(self, request[t])]
         /\ outcome' = [outcome EXCEPT ![t] =
                          [NoResult EXCEPT !.kind = "exception",
                                           !.reason = GetConnectionCalls(self)[k].op]]
    /\ pc' = [pc EXCEPT ![t] = "done"]
    /\ UNCHANGED <<self, request, resp, headers, index, respbody, response, overlapped>>

\* line 136; buffered are the lists of header lines the connection may buffer
\* on its own after the request line
PutRequest(t, buffered) ==
    /\ pc[t] = "putrequest"
    /\ calls' = [calls EXCEPT ![t] = Append(@, Call("putrequest"))]
    /\ \E lines \in buffered :
         connection' = [connection EXCEPT ![t]._buffer =
             IF IsHttplib(connection[t])
             THEN <<[name |-> request[t].method, value |-> None]>> \o lines
             ELSE <<>>]
    /\ pc' = [pc EXCEPT ![t] =
                IF ~self.use_httplib /\ Truthy(self.proxy_host) /\ Truthy(self.proxy_user)
                THEN "set_proxy_credentials" ELSE "send_request_headers"]
    /\ UNCHANGED <<self, request, resp, headers, index, respbody, response,
                   outcome, overlapped>>

PutRequestRaises(t) ==
    /\ pc[t] = "putrequest"
    /\ calls' = [calls EXCEPT ![t] = Append(@, Call("putrequest"))]
    /\ Raise(t, "putrequest")
    /\ UNCHANGED <<self, request, connection, resp, headers, index, respbody,
                   response, overlapped>>

\* lines 138-140
SetProxyCredentials(t) ==
    /\ pc[t] = "set_proxy_credentials"
    /\ calls' = [calls EXCEPT ![t] = Append(@, Call("set_proxy_credentials"))]
    /\ \/ /\ pc' = [pc EXCEPT ![t] = "send_request_headers"]
          /\ UNCHANGED outcome
       \/ Raise(t, "set_proxy_credentials")
    /\ UNCHANGED <<self, request, connection, resp, headers, index, respbody,
                   response, overlapped>>

\* line 142
SendRequestHeaders(t) ==
    /\ pc[t] = "send_request_headers"
    /\ LET conn == HostLinesRemoved(self, connection[t])
           cs == SendRequestHeadersCalls(self, conn, request[t].headers)
       IN  /\ connection' = [connection EXCEPT ![t] = ApplyAll(conn, cs)]
           /\ calls' = [calls EXCEPT ![t] = @ \o cs]
    /\ pc' = [pc EXCEPT ![t] = "send_request_body"]
    /\ UNCHANGED <<self, request, resp, headers, index, respbody, response,
                   outcome, overlapped>>

\* line 142: the k-th operation send_request_headers invokes raises
SendRequestHeadersRaises(t) ==
    /\ pc[t] = "send_request_headers"
    /\ LET conn == HostLinesRemoved(self, connection[t])
           cs == SendRequestHeadersCalls(self, conn, request[t].headers)
       IN  \E k \in 1..Len(cs) :
             /\ connection' = [connection EXCEPT ![t] = ApplyAll(conn, SubSeq(cs, 1, k - 1))]
             /\ calls' = [calls EXCEPT ![t] = @ \o SubSeq(cs, 1, k)]
             /\ Raise(t, cs[k].op)
    /\ UNCHANGED <<self, request, resp, headers, index, respbody, response, overlapped>>

\* line 143
SendRequestBody(t) ==
    /\ pc[t] = "send_request_body"
    /\ ~(TruthyBody(request[t].body) /\ request[t].body.type # "bytes")
    /\ LET sends == SendRequestBodySends(connection[t], request[t].body)
       IN  /\ connection' = [connection EXCEPT ![t].body = @ \o sends]
           /\ calls' = [calls EXCEPT ![t] = @ \o [i \in 1..Len(sends) |-> Call("send")]]
    /\ pc' = [pc EXCEPT ![t] = "getresponse"]
    /\ UNCHANGED <<self, request, resp, headers, index, respbody, response,
                   outcome, overlapped>>

\* line 143: the assertion of line 126 fails, or the send raises
SendRequestBodyRaises(t) ==
    /\ pc[t] = "send_request_body"
    /\ IF TruthyBody(request[t].body) /\ request[t].body.type # "bytes"
       THEN /\ Raise(t, "AssertionError")
            /\ UNCHANGED calls
       ELSE /\ SendRequestBodySends(connection[t], request[t].body) # <<>>
            /\ calls' = [calls EXCEPT ![t] = Append(@, Call("send"))]
            /\ Raise(t, "send")
    /\ UNCHANGED <<self, request, connection, resp, headers, index, respbody,
                   response, overlapped>>

\* line 145; responses are the responses the server may send
GetResponse(t, responses) ==
    /\ pc[t] = "getresponse"
    /\ calls' = [calls EXCEPT ![t] = Append(@, Call("getresponse"))]
    /\ \/ /\ \E r \in responses : resp' = [resp EXCEPT ![t] = r]
          /\ pc' = [pc EXCEPT ![t] = "status"]
          /\ UNCHANGED outcome
       \/ /\ Raise(t, "getresponse")
          /\ UNCHANGED resp
    /\ UNCHANGED <<self, request, connection, headers, index, respbody, response,
                   overlapped>>

\* line 146
StoreStatus(t) ==
    /\ pc[t] = "status"
    /\ self' = [self EXCEPT !.status = resp[t].status]
    /\ pc' = [pc EXCEPT ![t] = "message"]
    /\ UNCHANGED <<request, connection, calls, resp, headers, index, respbody,
                   response, outcome, overlapped>>

\* line 147
StoreMessageMutant(t) ==
    /\ pc[t] = "message"
    /\ pc' = [pc EXCEPT ![t] = "respheader"]
    /\ UNCHANGED <<self, request, connection, calls, resp, headers, index, respbody,
                   response, outcome, overlapped>>
StoreMessage(t) ==
    /\ pc[t] = "message"
    /\ self' = [self EXCEPT !.message = resp[t].reason]
    /\ pc' = [pc EXCEPT ![t] = "respheader"]
    /\ UNCHANGED <<request, connection, calls, resp, headers, index, respbody,
                   response, outcome, overlapped>>

\* line 148: respheader and the local headers name the one list getheaders returned
StoreHeaders(t) ==
    /\ pc[t] = "respheader"
    /\ calls' = [calls EXCEPT ![t] = Append(@, Call("getheaders"))]
    /\ headers' = [headers EXCEPT ![t] = resp[t].headers]
    /\ self' = [self EXCEPT !.respheader = t]
    /\ index' = [index EXCEPT ![t] = 1]
    /\ pc' = [pc EXCEPT ![t] = "lowercase"]
    /\ UNCHANGED <<request, connection, resp, respbody, response, outcome, overlapped>>

\* line 152
Lowercased(header) == <<lower(header[1]), header[2]>>

\* lines 151-152: one iteration of the loop, or its end
LowercaseHeader(t) ==
    /\ pc[t] = "lowercase"
    /\ IF index[t] <= Len(headers[t])
       THEN /\ headers' = [headers EXCEPT ![t][index[t]] = Lowercased(@)]
            /\ index' = [index EXCEPT ![t] = @ + 1]
            /\ UNCHANGED pc
       ELSE /\ pc' = [pc EXCEPT ![t] = "read"]
            /\ index' = [index EXCEPT ![t] = 0]
            /\ UNCHANGED headers
    /\ UNCHANGED <<self, request, connection, calls, resp, respbody, response,
                   outcome, overlapped>>

\* lines 155-158: the argument of each read issued (NoneInt: read to exhaustion)
ReadArgumentsMutant(length) == <<length>>
ReadArguments(length) ==
    IF length = NoneInt THEN <<NoneInt>>
    ELSE IF length > 0 THEN <<length>>
    ELSE <<>>

\* resp.read() and resp.read(n)
Read(data, n) == IF n = NoneInt THEN data ELSE Take(data, n)

\* lines 154-158
ReadBody(t) ==
    /\ pc[t] = "read"
    /\ LET args == ReadArguments(resp[t].length)
       IN  /\ calls' = [calls EXCEPT ![t] = @ \o [i \in 1..Len(args) |-> Call("read")]]
           /\ resp' = [resp EXCEPT ![t].reads = @ \o args]
           /\ respbody' = [respbody EXCEPT ![t] =
                             IF args = <<>> THEN NoneBody
                             ELSE [type |-> "bytes", data |-> Read(resp[t].data, args[1])]]
    /\ pc' = [pc EXCEPT ![t] = "response"]
    /\ UNCHANGED <<self, request, connection, headers, index, response, outcome,
                   overlapped>>

\* lines 156, 158: the read raises
ReadBodyRaises(t) ==
    /\ pc[t] = "read"
    /\ ReadArguments(resp[t].length) # <<>>
    /\ calls' = [calls EXCEPT ![t] = Append(@, Call("read"))]
    /\ resp' = [resp EXCEPT ![t].reads = @ \o ReadArguments(resp[t].length)]
    /\ Raise(t, "read")
    /\ UNCHANGED <<self, request, connection, headers, index, respbody, response,
                   overlapped>>

\* line 160
MakeResponse(t) ==
    /\ pc[t] = "response"
    /\ response' = [response EXCEPT ![t] =
                      [kind |-> "HTTPResponse", status |-> resp[t].status,
                       reason |-> resp[t].reason, headers |-> headers[t],
                       body |-> respbody[t]]]
    /\ pc' = [pc EXCEPT ![t] = "check"]
    /\ UNCHANGED <<self, request, connection, calls, resp, headers, index, respbody,
                   outcome, overlapped>>

\* line 161
IsErrorStatusMutant(status) == status > 300
IsErrorStatus(status) == status >= 300

\* lines 161, 164
CheckStatus(t) ==
    /\ pc[t] = "check"
    /\ IF IsErrorStatus(self.status)
       THEN /\ pc' = [pc EXCEPT ![t] = "raise"]
            /\ UNCHANGED outcome
       ELSE /\ pc' = [pc EXCEPT ![t] = "finally"]
            /\ outcome' = [outcome EXCEPT ![t] = response[t]]
    /\ UNCHANGED <<self, request, connection, calls, resp, headers, index, respbody,
                   response, overlapped>>

\* line 162: the list self.respheader names, as it is now
RespHeaderList == IF self.respheader = 0 THEN <<>> ELSE headers[self.respheader]

\* line 162
RaiseHTTPError(t) ==
    /\ pc[t] = "raise"
    /\ outcome' = [outcome EXCEPT ![t] =
                     [kind |-> "HTTPError", status |-> self.status,
                      reason |-> self.message, headers |-> RespHeaderList,
                      body |-> respbody[t]]]
    /\ pc' = [pc EXCEPT ![t] = "finally"]
    /\ UNCHANGED <<self, request, connection, calls, resp, headers, index, respbody,
                   response, overlapped>>

\* line 166
Close(t) ==
    /\ pc[t] = "finally"
    /\ calls' = [calls EXCEPT ![t] = Append(@, Call("close"))]
    /\ connection' = [connection EXCEPT ![t].closed = @ + 1]
    /\ pc' = [pc EXCEPT ![t] = "done"]
    /\ UNCHANGED <<self, request, resp, headers, index, respbody, response, outcome,
                   overlapped>>

\* the caller has the result or the exception; the locals of the call are gone,
\* the list self.respheader names stays
Return(t) ==
    /\ pc[t] = "done"
    /\ pc' = [pc EXCEPT ![t] = "idle"]
    /\ request' = [request EXCEPT ![t] = NoRequest]
    /\ connection' = [connection EXCEPT ![t] = NoConnection]
    /\ calls' = [calls EXCEPT ![t] = <<>>]
    /\ resp' = [resp EXCEPT ![t] = NoResponse]
    /\ headers' = [headers EXCEPT ![t] = IF self.respheader = t THEN @ ELSE <<>>]
    /\ respbody' = [respbody EXCEPT ![t] = NoneBody]
    /\ response' = [response EXCEPT ![t] = NoResult]
    /\ outcome' = [outcome EXCEPT ![t] = NoResult]
    /\ overlapped' = [overlapped EXCEPT ![t] = FALSE]
    /\ UNCHANGED <<self, index>>

\* ------------------------------------------------------------ the inputs
SeqsUpTo(S, n) == UNION {[1..k -> S] : k \in 0..n}

Bytes(n) == [i \in 1..n |-> 103 + i]
BytesBody(n) == [type |-> "bytes", data |-> Bytes(n)]
TextBody == [type |-> "unicode", data |-> Bytes(2)]

Proxies ==
    {[host |-> None, port |-> NoneInt, user |-> None, password |-> None]}
    \cup {[host |-> "proxy", port |-> 8080, user |-> u, password |-> p] :
            u \in {None, "ab"}, p \in {None, "c"}}

Requests(overrides, headerLists, bodies) ==
    {[method |-> "GET", path |-> "/blob", host |-> "target",
      protocol_override |-> o, headers |-> h, body |-> b] :
        o \in overrides, h \in headerLists, b \in bodies}

RequestHeaderPool ==
    {<<"x-ms-version", "v1">>, <<"x-ms-date", "d">>,
     <<"x-ms-meta", None>>, <<"x-ms-meta", "">>}

BufferPool ==
    {[name |-> "Host", value |-> "proxy:8080"],
     [name |-> "Accept-Encoding", value |-> "identity"]}

Reason(status) ==
    CASE status = 200 -> "OK"
      [] status = 299 -> "Custom"
      [] status = 300 -> "Multiple Choices"
      [] OTHER -> "Not Found"

Responses(statuses, headerLists, lengths, sizes) ==
    {[status |-> s, reason |-> Reason(s), headers |-> h, length |-> l,
      data |-> Bytes(n), reads |-> <<>>] :
        s \in statuses, h \in headerLists, l \in lengths, n \in sizes}

ContentLength == <<"C","o","n","t","e","n","t","-","L","e","n","g","t","h">>
ResponseHeaderPool ==
    {<<ContentLength, "13">>, <<<<"E","T","a","g">>, "W/x">>, <<<<"e","t","a","g">>, "0">>}

\* ------------------------------------------- dispatch over one connection
\* every kind of client, proxy setting and protocol; few headers and responses
SpecClients == {NewClient(p, u) : p \in {"http", "https"}, u \in BOOLEAN}
SpecRequests ==
    Requests({None, "http", "https"},
             {<<>>, << <<"x-ms-version", "v1">> >>, << <<"x-ms-meta", None>> >>},
             {NoneBody, BytesBody(2), TextBody})
SpecBuffered == {<<>>, <<[name |-> "Host", value |-> "proxy:8080"]>>}
SpecResponses ==
    Responses({200}, {<< <<ContentLength, "13">> >>}, {NoneInt}, {1})
    \cup Responses({404}, {<<>>}, {0}, {0})

Init == InitWith(SpecClients)

Next ==
    \/ SetProxy(Proxies)
    \/ PerformRequest(1, SpecRequests)
    \/ GetConnection(1)
    \/ GetConnectionRaises(1)
    \/ PutRequest(1, SpecBuffered)
    \/ PutRequestRaises(1)
    \/ SetProxyCredentials(1)
    \/ SendRequestHeaders(1)
    \/ SendRequestHeadersRaises(1)
    \/ SendRequestBody(1)
    \/ SendRequestBodyRaises(1)
    \/ GetResponse(1, SpecResponses)
    \/ StoreStatus(1)
    \/ StoreMessage(1)
    \/ StoreHeaders(1)
    \/ LowercaseHeader(1)
    \/ ReadBody(1)
    \/ ReadBodyRaises(1)
    \/ MakeResponse(1)
    \/ CheckStatus(1)
    \/ RaiseHTTPError(1)
    \/ Close(1)
    \/ Return(1)

Spec == Init /\ [][Next]_vars

\* --------------------------------------------- header and body emission
\* every list of request headers, body and buffered line; one response
HeaderClients == {NewClient("https", u) : u \in BOOLEAN}
HeaderProxies ==
    {[host |-> None, port |-> NoneInt, user |-> None, password |-> None],
     [host |-> "proxy", port |-> 8080, user |-> "ab", password |-> "c"]}
HeaderRequests ==
    Requests({None}, SeqsUpTo(RequestHeaderPool, MaxHeaders),
             {NoneBody, BytesBody(0), BytesBody(2), TextBody})
HeaderBuffered == SeqsUpTo(BufferPool, MaxBuffered)
HeaderResponses == Responses({200}, {<<>>}, {0}, {0})

InitHeaders == InitWith(HeaderClients)

NextHeaders ==
    \/ SetProxy(HeaderProxies)
    \/ PerformRequest(1, HeaderRequests)
    \/ GetConnection(1)
    \/ GetConnectionRaises(1)
    \/ PutRequest(1, HeaderBuffered)
    \/ PutRequestRaises(1)
    \/ SetProxyCredentials(1)
    \/ SendRequestHeaders(1)
    \/ SendRequestHeadersRaises(1)
    \/ SendRequestBody(1)
    \/ SendRequestBodyRaises(1)
    \/ GetResponse(1, HeaderResponses)
    \/ StoreStatus(1)
    \/ StoreMessage(1)
    \/ StoreHeaders(1)
    \/ LowercaseHeader(1)
    \/ ReadBody(1)
    \/ MakeResponse(1)
    \/ CheckStatus(1)
    \/ Close(1)
    \/ Return(1)

SpecHeaders == InitHeaders /\ [][NextHeaders]_vars

\* ------------------------------------------------- reading the response
\* every status, header list, length and body; one request, no proxy
ResponseClients == {NewClient("https", u) : u \in BOOLEAN}
ResponseRequests == Requests({None}, {<<>>}, {NoneBody})
ResponseStatuses == {200, 299, 300, 404}
ResponseResponses ==
    Responses(ResponseStatuses, SeqsUpTo(ResponseHeaderPool, MaxRespHeaders),
              {NoneInt}, {1})
    \cup Responses(ResponseStatuses, {<<>>}, {NoneInt} \cup 0..MaxBody, 0..MaxBody)

InitResponse == InitWith(ResponseClients)

NextResponse ==
    \/ PerformRequest(1, ResponseRequests)
    \/ GetConnection(1)
    \/ PutRequest(1, {<<>>})
    \/ SendRequestHeaders(1)
    \/ SendRequestBody(1)
    \/ GetResponse(1, ResponseResponses)
    \/ StoreStatus(1)
    \/ StoreMessage(1)
    \/ StoreHeaders(1)
    \/ LowercaseHeader(1)
    \/ ReadBody(1)
    \/ ReadBodyRaises(1)
    \/ MakeResponse(1)
    \/ CheckStatus(1)
    \/ RaiseHTTPError(1)
    \/ Close(1)
    \/ Return(1)

SpecResponse == InitResponse /\ [][NextResponse]_vars

\* ------------------------------------------ two threads sharing a client
ConcurrentClients == {NewClient("https", TRUE)}
ConcurrentRequests == Requests({None}, {<<>>}, {NoneBody})
ConcurrentResponses ==
    Responses({200}, {<< <<<<"E","T","a","g">>, "W/x">> >>}, {NoneInt}, {1})
    \cup Responses({404}, {<< <<ContentLength, "13">> >>}, {0}, {0})

InitConcurrent == InitWith(ConcurrentClients)

NextConcurrent ==
    \E t \in Threads :
        \/ PerformRequest(t, ConcurrentRequests)
        \/ GetConnection(t)
        \/ PutRequest(t, {<<>>})
        \/ SendRequestHeaders(t)
        \/ SendRequestBody(t)
        \/ GetResponse(t, ConcurrentResponses)
        \/ StoreStatus(t)
        \/ StoreMessage(t)
        \/ StoreHeaders(t)
        \/ LowercaseHeader(t)
        \/ ReadBody(t)
        \/ ReadBodyRaises(t)
        \/ MakeResponse(t)
        \/ CheckStatus(t)
        \/ RaiseHTTPError(t)
        \/ Close(t)
        \/ Return(t)

SpecConcurrent == InitConcurrent /\ [][NextConcurrent]_vars

\* ------------------------------------------------------------ properties
Ops(t) == [i \in 1..Len(calls[t]) |-> calls[t][i].op]
Count(seq, x) == Cardinality({i \in 1..Len(seq) : seq[i] = x})
ProxyConfigured == Truthy(self.proxy_host)

\* C1 as claimed: on every exit path of perform_request, an exception propagated
\* from get_connection included, close has been invoked exactly once.
C1_CloseOnEveryExit ==
    \A t \in Threads : pc[t] = "done" => connection[t].closed = 1

\* C1 amended: close is invoked exactly once on every exit path of a call whose
\* get_connection returned (normal return, HTTPError, an exception of any later
\* step), never twice, and not at all when get_connection itself raises.
C1_CloseOncePerAcquiredConnection ==
    \A t \in Threads :
        /\ connection[t].closed = Count(Ops(t), "close")
        /\ connection[t].closed <= 1
        /\ pc[t] = "done" =>
             connection[t].closed = (IF Occurs(Ops(t), "putrequest") THEN 1 ELSE 0)
        /\ (InProgress(t) /\ pc[t] # "done") => connection[t].closed = 0

C1_Witness ==
    \E t \in Threads :
        /\ pc[t] = "done"
        /\ outcome[t].kind = "exception"
        /\ outcome[t].reason = "endheaders"
        /\ connection[t].closed = 1

\* the port of the true target, from the request and the client's default
ExpectedTargetPort(t) ==
    IF request[t].protocol_override = "http" THEN 80
    ELSE IF request[t].protocol_override = "https" THEN 443
    ELSE IF self.protocol = "http" THEN 80 ELSE 443

BasicAbC == <<"B","a","s","i","c"," ","Y","W","I","6","Y","w","=","=","\n">>

\* C5 as claimed: with a proxy configured the connection is opened to the proxy's
\* host and port and tunnels toward the true target.
C5_ProxiedConnectionGoesToProxy ==
    \A t \in Threads :
        (connection[t].type # "NoneType" /\ Occurs(Ops(t), "putrequest") /\ ProxyConfigured) =>
            /\ connection[t].host = self.proxy_host
            /\ connection[t].port = self.proxy_port
            /\ connection[t]._tunnel_host = request[t].host
            /\ connection[t]._tunnel_port = ExpectedTargetPort(t)

\* C5 amended: on the standard connections a configured proxy makes the
\* connection go to the proxy's host and port with set_tunnel(target host, 80 for
\* http else 443); on the alternate connection the connection is built for the
\* target host and set_tunnel receives the proxy's host and port.  The tunnel
\* carries Proxy-Authorization: Basic base64("user:password") (with encodestring's
\* trailing newline) exactly when user and password are both set.  Without a
\* proxy the connection goes to the target and set_tunnel is not called.
C5_ConnectionTarget ==
    \A t \in Threads :
        (connection[t].type # "NoneType" /\ Occurs(Ops(t), "putrequest")) =>
            LET c == connection[t]
                both == self.proxy_user = "ab" /\ self.proxy_password = "c"
            IN  /\ IF self.use_httplib
                   THEN /\ c.type = (IF ExpectedTargetPort(t) = 80 THEN "HTTPConnection"
                                     ELSE "HTTPSConnection")
                        /\ IF ProxyConfigured
                           THEN /\ c.host = self.proxy_host /\ c.port = self.proxy_port
                                /\ c._tunnel_host = request[t].host
                                /\ c._tunnel_port = ExpectedTargetPort(t)
                           ELSE /\ c.host = request[t].host
                                /\ c.port = ExpectedTargetPort(t)
                   ELSE /\ c.type = "_HTTPConnection"
                        /\ c.host = request[t].host
                        /\ c.protocol = (IF ExpectedTargetPort(t) = 80 THEN "http" ELSE "https")
                        /\ ProxyConfigured =>
                             /\ c._tunnel_host = self.proxy_host
                             /\ c._tunnel_port = self.proxy_port
                /\ ~ProxyConfigured =>
                     /\ c._tunnel_host = None /\ c._tunnel_port = NoneInt
                     /\ c._tunnel_headers = <<>>
                     /\ ~Occurs(Ops(t), "set_tunnel")
                /\ ProxyConfigured =>
                     /\ Count(Ops(t), "set_tunnel") = 1
                     /\ c._tunnel_headers =
                          (IF both THEN << <<"Proxy-Authorization", BasicAbC>> >> ELSE <<>>)

C5_Witness ==
    \E t \in Threads :
        /\ pc[t] = "send_request_headers"
        /\ self.use_httplib /\ ProxyConfigured
        /\ request[t].protocol_override = "http" /\ self.protocol = "https"
        /\ connection[t].host = "proxy" /\ connection[t]._tunnel_port = 80
        /\ connection[t]._tunnel_headers # <<>>

\* the place of each operation in the order of one dispatch
Rank(op) ==
    CASE op = "__init__" -> 1
      [] op = "set_tunnel" -> 2
      [] op = "putrequest" -> 3
      [] op = "set_proxy_credentials" -> 4
      [] op = "putheader" -> 5
      [] op = "endheaders" -> 6
      [] op = "send" -> 7
      [] op = "getresponse" -> 8
      [] op = "getheaders" -> 9
      [] op = "read" -> 10
      [] OTHER -> 11

Needs(ops, op, before) ==
    \A j \in 1..Len(ops) : ops[j] = op => \E i \in 1..(j - 1) : ops[i] = before

\* C8: the operations of one dispatch occur in the order acquire, putrequest,
\* set_proxy_credentials (only on the alternate connection with proxy host and
\* user set), header writes ending with endheaders, send, getresponse, read,
\* close; nothing precedes the request line, the response is not read before
\* endheaders, and nothing follows close.
C8_OperationOrder ==
    \A t \in Threads :
        LET ops == Ops(t)
        IN  /\ \A i, j \in 1..Len(ops) :
                 i < j => \/ Rank(ops[i]) < Rank(ops[j])
                          \/ (ops[i] = "putheader" /\ ops[j] = "putheader")
            /\ ops # <<>> => ops[1] = "__init__"
            /\ \A op \in {"set_proxy_credentials", "putheader", "endheaders"} :
                 Needs(ops, op, "putrequest")
            /\ Needs(ops, "send", "endheaders")
            /\ Needs(ops, "getresponse", "endheaders")
            /\ Needs(ops, "read", "getresponse")
            /\ Needs(ops, "close", "putrequest")
            /\ Occurs(ops, "set_proxy_credentials") =>
                 ~self.use_httplib /\ Truthy(self.proxy_host) /\ Truthy(self.proxy_user)
            /\ (Occurs(ops, "putheader") /\ ~self.use_httplib
                /\ Truthy(self.proxy_host) /\ Truthy(self.proxy_user)) =>
                 Occurs(ops, "set_proxy_credentials")
            /\ pc[t] = "done" /\ outcome[t].kind \in {"HTTPResponse", "HTTPError"} =>
                 /\ Occurs(ops, "getresponse")
                 /\ ops[Len(ops)] = "close"

C8_Witness ==
    \E t \in Threads :
        /\ pc[t] = "done"
        /\ Ops(t) = <<"__init__", "set_tunnel", "putrequest", "set_proxy_credentials",
                      "putheader", "putheader", "endheaders", "send", "getresponse",
                      "getheaders", "read", "close">>

\* the Host header of the true target
ExpectedHost(t) == IF ExpectedTargetPort(t) = 80 THEN "target:80" ELSE "target:443"
HostLines(lines) == SelectSeq(lines, LAMBDA l : l.name = "Host" /\ l.value # None)

\* C4: with a proxy configured, the header section the httplib connection
\* sends carries exactly one Host header, target_host:target_port, whatever
\* lines the connection had buffered before send_request_headers ran.
C4_OneHostHeaderOfTarget ==
    \A t \in Threads :
        (ProxyConfigured /\ self.use_httplib /\ connection[t].sent # <<>>) =>
            HostLines(connection[t].sent) = <<[name |-> "Host", value |-> ExpectedHost(t)]>>

\* the provided headers with a value, in the order given
Provided(t) == SelectSeq(request[t].headers, LAMBDA h : h[2] # None /\ h[2] # "")
Puts(t) == SelectSeq(calls[t], LAMBDA c : c.op = "putheader")

\* C7: send_request_headers writes a provided header iff its value is neither
\* None nor empty, in the order given, then the fixed User-Agent header once,
\* and calls endheaders once, after every header write.
C7_HeadersWritten ==
    \A t \in Threads :
        /\ Count(Ops(t), "endheaders") <= 1
        /\ Occurs(Ops(t), "endheaders") =>
             LET puts == Puts(t)
                 n == Len(Provided(t))
                 first == Len(puts) - n
             IN  /\ Len(puts) = n + 1
                      + (IF self.use_httplib /\ ProxyConfigured THEN 1 ELSE 0)
                 /\ \A i \in 1..n :
                      /\ puts[first + i - 1].name = Provided(t)[i][1]
                      /\ puts[first + i - 1].value = Provided(t)[i][2]
                 /\ puts[Len(puts)].name = "User-Agent"
                 /\ puts[Len(puts)].value = _USER_AGENT_STRING
                 /\ \A i, j \in 1..Len(calls[t]) :
                      (calls[t][i].op = "putheader" /\ calls[t][j].op = "endheaders") => i < j

C7_Witness ==
    \E t \in Threads :
        /\ pc[t] = "send_request_body"
        /\ request[t].headers = << <<"x-ms-meta", "">>, <<"x-ms-version", "v1">> >>
        /\ Len(Puts(t)) = 2

ExpectedLower(name) ==
    CASE name = ContentLength -> <<"c","o","n","t","e","n","t","-","l","e","n","g","t","h">>
      [] name = <<"E","T","a","g">> -> <<"e","t","a","g">>
      [] OTHER -> name
ExpectedHeaders(t) ==
    [i \in 1..Len(resp[t].headers) |->
        <<ExpectedLower(resp[t].headers[i][1]), resp[t].headers[i][2]>>]

\* the body the reads of the response yield
ExpectedBody(t) ==
    IF resp[t].length = 0 THEN NoneBody
    ELSE IF resp[t].length = NoneInt \/ resp[t].length >= Len(resp[t].data)
    THEN [type |-> "bytes", data |-> resp[t].data]
    ELSE [type |-> "bytes", data |-> SubSeq(resp[t].data, 1, resp[t].length)]

Left(t) == pc[t] \in {"finally", "done"} /\ outcome[t].kind \in {"HTTPResponse", "HTTPError"}

\* C2 as claimed: a response with status >= 300 makes the call raise HTTPError
\* with the status, reason, headers and body exactly as the connection delivered
\* them; one with status < 300 is returned.
C2_ErrorCarriesRawResponse ==
    \A t \in Threads :
        Left(t) =>
            /\ outcome[t].kind = "HTTPError" <=> resp[t].status >= 300
            /\ outcome[t].kind = "HTTPError" =>
                 /\ outcome[t].status = resp[t].status
                 /\ outcome[t].reason = resp[t].reason
                 /\ outcome[t].headers = resp[t].headers
                 /\ outcome[t].body = ExpectedBody(t)

\* C2 amended: in single-threaded use a response with status >= 300 whose body
\* is read makes the call raise HTTPError with the response's status, reason and
\* body and with its headers in order, every name lowercased; one with status
\* < 300 is returned as an HTTPResponse; the boundary is exactly 300.
C2_ErrorCarriesNormalizedResponse ==
    \A t \in Threads :
        /\ Left(t) =>
            /\ outcome[t].kind = "HTTPError" <=> resp[t].status >= 300
            /\ outcome[t].status = resp[t].status
            /\ outcome[t].reason = resp[t].reason
            /\ outcome[t].headers = ExpectedHeaders(t)
            /\ outcome[t].body = ExpectedBody(t)
        /\ (pc[t] = "done" /\ Occurs(Ops(t), "getresponse")) =>
             \/ Left(t)
             \/ /\ outcome[t].kind = "exception"
                /\ outcome[t].reason \in {"getresponse", "read"}

C2_Witness ==
    \E t \in Threads :
        /\ pc[t] = "done"
        /\ resp[t].status = 300
        /\ outcome[t].kind = "HTTPError"
        /\ resp[t].headers # <<>>
        /\ outcome[t].headers # resp[t].headers

\* C3: every header name of a returned HTTPResponse is lowercase, and the
\* headers are otherwise those getheaders() returned: as many, in the same
\* order, with the same values.
C3_HeaderNamesLowercase ==
    \A t \in Threads :
        (Left(t) /\ outcome[t].kind = "HTTPResponse") =>
            LET hs == outcome[t].headers
            IN  /\ Len(hs) = Len(resp[t].headers)
                /\ \A i \in 1..Len(hs) :
                     /\ \A j \in 1..Len(hs[i][1]) : ~Occurs(UpperChars, hs[i][1][j])
                     /\ hs[i][1] = ExpectedLower(resp[t].headers[i][1])
                     /\ hs[i][2] = resp[t].headers[i][2]

C3_Witness ==
    \E t \in Threads :
        /\ pc[t] = "done"
        /\ outcome[t].kind = "HTTPResponse"
        /\ Len(resp[t].headers) = 2
        /\ resp[t].headers[1][1] = <<"E","T","a","g">>
        /\ resp[t].headers[2][1] = ContentLength

\* C9: the body is read to exhaustion when the length is None, with
\* read(length) when the length is positive, and not at all when it is 0, the
\* body then being None; at most one read is issued.
C9_ReadPolicy ==
    \A t \in Threads :
        /\ Len(resp[t].reads) <= 1
        /\ Len(resp[t].reads) = Count(Ops(t), "read")
        /\ pc[t] \in {"response", "check", "raise"} \/ Left(t) =>
             /\ resp[t].length = NoneInt => resp[t].reads = <<NoneInt>>
             /\ resp[t].length > 0 => resp[t].reads = <<resp[t].length>>
             /\ resp[t].length = 0 => resp[t].reads = <<>> /\ respbody[t] = NoneBody
             /\ respbody[t] = ExpectedBody(t)
        /\ Left(t) => outcome[t].body = ExpectedBody(t)

C9_Witness ==
    \E t \in Threads :
        /\ pc[t] = "done"
        /\ outcome[t].kind = "HTTPError"
        /\ resp[t].length = 0 /\ resp[t].data # <<>>
        /\ outcome[t].body = NoneBody

\* C10: a call that no other call overlapped raises HTTPError iff its own
\* response has status >= 300, with that response's status, reason and
\* lowercased headers, and leaves them in status, message and respheader; a call
\* another call overlapped may not (C10_Witness).
C10_SequentialCallsAreSafe ==
    \A t \in Threads :
        /\ (Left(t) /\ ~overlapped[t]) =>
              /\ outcome[t].kind = "HTTPError" <=> resp[t].status >= 300
              /\ outcome[t].status = resp[t].status
              /\ outcome[t].reason = resp[t].reason
              /\ outcome[t].headers = ExpectedHeaders(t)
        /\ (pc[t] = "finally" /\ ~overlapped[t] /\ Occurs(Ops(t), "getresponse")
            /\ outcome[t].reason # "getresponse") =>
              /\ self.status = resp[t].status
              /\ self.message = resp[t].reason
              /\ self.respheader # 0
              /\ headers[self.respheader] = ExpectedHeaders(t)

\* an overlapped call whose own response has status < 300 raises HTTPError with
\* the other call's status, reason and headers
C10_Witness ==
    \E t \in Threads :
        /\ pc[t] = "done" /\ overlapped[t]
        /\ resp[t].status = 200
        /\ outcome[t].kind = "HTTPError"
        /\ outcome[t].status = 404
        /\ outcome[t].reason = "Not Found"
        /\ outcome[t].headers # ExpectedHeaders(t)

====
